---- MODULE Spec2Model ----
(* Host scripts of the shader demo:                                         *)
(*   src/unnamed/part_000  WebGL2 host, fixed 800x600 canvas, async         *)
(*                         bootstrap with fragment fallback, error overlay  *)
(*   src/main.js           WebGL host, window-filling canvas, synchronous   *)
(*                         bootstrap, resize listener                       *)
(* Text is a sequence of one-character strings.  Numbers are fixed-point    *)
(* integers in hundredths (0.05 is 5, 1.0 is 100); NaN is the value -1      *)
(* (no text of the model carries a sign, so no number is negative).         *)
(* The GLSL compiler, the linker, fetch and the GL context are external:    *)
(* their outcomes are chosen nondeterministically.                          *)
EXTENDS Integers, Sequences, FiniteSets, TLC

\* ---------------------------------------------------------------- bounds
\* Frames (invocations of render) the model follows before it stops.
MaxFrames == 3

\* ------------------------------------------------------------ text helpers
\* F(x), with x evaluated once (x is bound as a value before F uses it).
Apply(F(_), x) == CHOOSE r \in {F(v) : v \in {x}} : TRUE

WS == {" ", "\n", "\t"}

Digits == {"0", "1", "2", "3", "4", "5", "6", "7", "8", "9"}

DigitVal(c) ==
    CASE c = "0" -> 0 [] c = "1" -> 1 [] c = "2" -> 2 [] c = "3" -> 3
      [] c = "4" -> 4 [] c = "5" -> 5 [] c = "6" -> 6 [] c = "7" -> 7
      [] c = "8" -> 8 [] c = "9" -> 9

NaN == 0 - 1

\* Fixed-point unit: one is Scale hundredths.
Scale == 10 * 10

RECURSIVE TrimStart(_)
TrimStart(s) ==
    IF s # <<>> /\ Head(s) \in WS THEN TrimStart(Tail(s)) ELSE s

RECURSIVE TrimEnd(_)
TrimEnd(s) ==
    IF s # <<>> /\ s[Len(s)] \in WS THEN TrimEnd(SubSeq(s, 1, Len(s) - 1)) ELSE s

\* String.prototype.trim
Trim(s) == TrimEnd(TrimStart(s))

RECURSIVE TakeDigits(_)
TakeDigits(s) ==
    IF s # <<>> /\ Head(s) \in Digits THEN <<Head(s)>> \o TakeDigits(Tail(s)) ELSE <<>>

RECURSIVE IntOf(_)
IntOf(ds) ==
    IF ds = <<>> THEN 0
    ELSE IntOf(SubSeq(ds, 1, Len(ds) - 1)) * 10 + DigitVal(ds[Len(ds)])

\* Value of the fraction digits in hundredths (digits past the second are cut).
FracOf(fs) ==
    (IF Len(fs) >= 1 THEN DigitVal(fs[1]) * 10 ELSE 0)
    + (IF Len(fs) >= 2 THEN DigitVal(fs[2]) ELSE 0)

Drop(s, n) == SubSeq(s, n + 1, Len(s))

\* The longest numeric prefix  digits [ . digits ]  |  . digits  of s,
\* as <<value, length>>; <<NaN, 0>> when s starts with no number.
NumericPrefix(s) ==
    LET Fraction(ip, rest) ==
            IF rest # <<>> /\ Head(rest) = "." THEN TakeDigits(Tail(rest)) ELSE <<>>
        Value(ip, rest, fp) ==
            IF ip = <<>> /\ fp = <<>> THEN <<NaN, 0>>
            ELSE <<IntOf(ip) * Scale + FracOf(fp),
                   Len(ip) + (IF rest # <<>> /\ Head(rest) = "." THEN 1 + Len(fp) ELSE 0)>>
        AfterInt(ip) ==
            LET AfterRest(rest) ==
                    LET AfterFrac(fp) == Value(ip, rest, fp)
                    IN  Apply(AfterFrac, Fraction(ip, rest))
            IN  Apply(AfterRest, Drop(s, Len(ip)))
    IN  Apply(AfterInt, TakeDigits(s))

\* parseFloat: skips leading white space, reads the longest numeric prefix,
\* ignores what follows; NaN when there is no such prefix.
ParseFloat(s) == Apply(NumericPrefix, TrimStart(s))[1]

\* Number(string): the whole trimmed string must be a number; "" is 0.
ToNumber(s) ==
    LET Whole(t) ==
            LET Check(p) == IF p[1] # NaN /\ p[2] = Len(t) THEN p[1] ELSE NaN
            IN  IF t = <<>> THEN 0 ELSE Apply(Check, NumericPrefix(t))
    IN  Apply(Whole, Trim(s))

\* String.prototype.split(','): the fields between the commas.
RECURSIVE Split(_)
Split(s) ==
    IF \A i \in 1..Len(s) : s[i] # "," THEN <<s>>
    ELSE LET k == CHOOSE i \in 1..Len(s) :
                     s[i] = "," /\ \A j \in 1..(i - 1) : s[j] # ","
         IN  <<SubSeq(s, 1, k - 1)>> \o Split(Drop(s, k))

\* JavaScript truthiness of a number (NaN and 0 are falsy) and of a string.
TruthyNum(n) == n # NaN /\ n # 0

TruthyStr(s) == s # <<>>

StartsWith(s, p) == Len(s) >= Len(p) /\ SubSeq(s, 1, Len(p)) = p

\* --------------------------------------------------------- program constants
\* gl.VERTEX_SHADER / gl.FRAGMENT_SHADER
VERTEX_SHADER == "vertex"

FRAGMENT_SHADER == "fragment"

\* The inline vertex source, abbreviated to its first line and its last brace.
vertexShaderSource ==
    <<"#", "v", "e", "r", "s", "i", "o", "n", " ", "3", "0", "0", " ", "e", "s",
      "\n", "}">>

\* The embedded fallback fragment source, abbreviated in the same way; the
\* "f" marks the fragment body.
fallbackFragmentSource ==
    <<"#", "v", "e", "r", "s", "i", "o", "n", " ", "3", "0", "0", " ", "e", "s",
      "\n", "f", "}">>

\* 'shaders/fragment.glsl'
fragmentUrl ==
    <<"s", "h", "a", "d", "e", "r", "s", "/", "f", "r", "a", "g", "m", "e", "n",
      "t", ".", "g", "l", "s", "l">>

\* The uniforms the fallback source declares and uses.
FallbackUniforms == {"u_resolution", "u_time"}

\* The uniforms the inline fragment source of main.js uses (u_sunlightAngle is
\* declared there but never read).
MainUniforms == {"u_resolution", "u_time", "u_haziness", "u_sunlightRGB"}

UniformNames ==
    {"u_resolution", "u_time", "u_haziness", "u_sunlightRGB", "u_sunlightAngle"}

\* canvas.width / canvas.height of the fixed-size host
FixedWidth == 800

FixedHeight == 600

\* ------------------------------------------------------------ environment
\* What fetch('shaders/fragment.glsl') can do: reject (transport error),
\* answer with a non-OK status, or answer OK with some text.
FileTexts ==
    { <<>>,                                   \* empty file
      <<" ", "\n">>,                          \* white space only
      <<"\n", "#", "m", "}", "\n">>,          \* GLSL padded with newlines
      <<"#", "m", "}">> }                     \* GLSL

FetchOutcomes ==
    { [kind |-> "reject", status |-> 0,   text |-> <<>>],
      [kind |-> "http",   status |-> 404, text |-> <<>>] }
    \cup { [kind |-> "ok", status |-> 200, text |-> t] : t \in FileTexts }

\* Values of the style properties --haziness and --sunlight-rgb; <<>> is what
\* getPropertyValue returns for a property that is not set.
HazinessValues ==
    { <<>>,
      <<"a", "b", "c">>,
      <<"0">>,
      <<"0", ".", "3">> }

SunlightValues ==
    { <<>>,
      <<"a", "b", "c">>,
      <<"1", ",", " ", "1", ",", "1">>,
      <<"1", ",", "0", ".", "5">>,
      <<"0", ".", "5", ",", "0", ".", "5", ",", "0", ".", "5">> }

\* window.innerWidth x window.innerHeight
WindowSizes == { <<800, 600>>, <<1024, 768>> }

\* ------------------------------------------------------------------ state
VARIABLES
    host,            \* "fixed": src/unnamed/part_000; "window": src/main.js
    pc,              \* position of the script / of the async bootstrap
    ret,             \* value handed from initProgram to setup to the init IIFE
    hazinessProp,    \* style property --haziness
    sunlightProp,    \* style property --sunlight-rgb
    windowSize,      \* window.innerWidth, window.innerHeight
    canvasSize,      \* canvas.width, canvas.height
    viewport,        \* the GL viewport (x, y, w, h); <<>> before it is set
    overlayDisplay,  \* errorOverlay.style.display ("initial": as the page sets it)
    overlayText,     \* the pieces written to errorOverlay.innerHTML, in order
    console,         \* console.error / console.warn entries, in order
    loadCalls,       \* invocations of loadShader / createShader, in order
    compiled,        \* the texts handed to gl.compileShader
    createdShaders,  \* shader objects gl.createShader returned
    liveShaders,     \* shader objects created and not deleted
    vs, fs,          \* the handles held by initProgram / main.js
    programObj,      \* the program object: "none", "live", "deleted"
    linkCount,       \* calls of gl.linkProgram
    linkFailed,      \* LINK_STATUS was false
    program,         \* the global program: "null" or "prog"
    locs,            \* the uniforms whose resolved location is present
    uniforms,        \* per uniform, the value last pushed (<<>>: none yet)
    lastWrites,      \* the uniforms the last setUniforms call wrote
    lastFrame,       \* the calls the last render() made, in order
    renderCalls,     \* invocations of render
    drawCalls,       \* calls of gl.drawArrays
    pending,         \* animation callbacks requested and not yet run
    now              \* performance.now(), in ticks

vars ==
    <<host, pc, ret, hazinessProp, sunlightProp, windowSize, canvasSize,
      viewport, overlayDisplay, overlayText, console, loadCalls, compiled,
      createdShaders, liveShaders, vs, fs, programObj, linkCount, linkFailed,
      program, locs, uniforms, lastWrites, lastFrame, renderCalls, drawCalls,
      pending, now>>

styleVars == <<hazinessProp, sunlightProp>>

surfaceVars == <<windowSize, canvasSize, viewport>>

overlayVars == <<overlayDisplay, overlayText>>

shaderVars == <<loadCalls, compiled, createdShaders, liveShaders, vs, fs>>

programVars == <<programObj, linkCount, linkFailed, program, locs>>

frameVars ==
    <<uniforms, lastWrites, lastFrame, renderCalls, drawCalls, pending, now>>

Init ==
    /\ host \in {"fixed", "window"}
    /\ pc = "script"
    /\ ret = "none"
    /\ hazinessProp \in HazinessValues
    /\ sunlightProp \in SunlightValues
    /\ windowSize \in WindowSizes
    /\ canvasSize = <<300, 150>>
    /\ viewport = <<>>
    /\ overlayDisplay = "initial"
    /\ overlayText = <<>>
    /\ console = <<>>
    /\ loadCalls = <<>>
    /\ compiled = {}
    /\ createdShaders = {}
    /\ liveShaders = {}
    /\ vs = "null"
    /\ fs = "null"
    /\ programObj = "none"
    /\ linkCount = 0
    /\ linkFailed = FALSE
    /\ program = "null"
    /\ locs = {}
    /\ uniforms = [n \in UniformNames |-> <<>>]
    /\ lastWrites = {}
    /\ lastFrame = <<>>
    /\ renderCalls = 0
    /\ drawCalls = 0
    /\ pending = 0
    /\ now = 0

\* ------------------------------------------------- part_000: loadShader
NoFetch == [kind |-> "none", status |-> 0, text |-> <<>>]

FetchError(f) == IF f.kind = "http" THEN "HTTP error" ELSE "transport error"

Entry(who, text) == [who |-> who, text |-> text]

\* Mutant: loadShader without the trim and without the empty-source check of
\* lines 50-54.
loadShader_NoEmptyCheck(id, type, sourceOrUrl, f, createOk, compileOk) ==
    LET isUrl   == \/ StartsWith(sourceOrUrl, <<".", "/">>)
                   \/ StartsWith(sourceOrUrl, <<"s", "h", "a", "d", "e", "r", "s", "/">>)
        source  == IF isUrl THEN f.text ELSE sourceOrUrl
        none    == [ret |-> "null", msg |-> "", compiled |-> {}, created |-> {},
                    live |-> {}, log |-> <<>>]
    IN  IF isUrl /\ f.kind # "ok"
          THEN [none EXCEPT !.log = <<Entry(id, FetchError(f))>>]
        ELSE IF ~createOk
          THEN [none EXCEPT !.ret = "throw",
                            !.msg = "Failed to create shader of type " \o type]
        ELSE IF ~compileOk
          THEN [none EXCEPT !.compiled = {source}, !.created = {id},
                            !.log = <<Entry(id, "compile error infoLog")>>]
        ELSE [none EXCEPT !.ret = "shader", !.compiled = {source},
                          !.created = {id}, !.live = {id}]

\* loadShader(type, sourceOrUrl) for the shader object id.  f is what fetch
\* does, createOk whether gl.createShader returns an object, compileOk the
\* COMPILE_STATUS.  The result: ret ("shader", "null", or "throw" with msg),
\* the text handed to the compiler, the objects created and left live, and
\* the console entries.
loadShader(id, type, sourceOrUrl, f, createOk, compileOk) ==
    LET isUrl   == \/ StartsWith(sourceOrUrl, <<".", "/">>)
                   \/ StartsWith(sourceOrUrl, <<"s", "h", "a", "d", "e", "r", "s", "/">>)
        source  == IF isUrl THEN f.text ELSE sourceOrUrl
        trimmed == Trim(source)
        none    == [ret |-> "null", msg |-> "", compiled |-> {}, created |-> {},
                    live |-> {}, log |-> <<>>]
    IN  IF isUrl /\ f.kind # "ok"
          THEN [none EXCEPT !.log = <<Entry(id, FetchError(f))>>]
        ELSE IF trimmed = <<>>
          THEN [none EXCEPT !.log = <<Entry(id, "Empty shader source after trim")>>]
        ELSE IF ~createOk
          THEN [none EXCEPT !.ret = "throw",
                            !.msg = "Failed to create shader of type " \o type]
        ELSE IF ~compileOk
          THEN [none EXCEPT !.compiled = {trimmed}, !.created = {id},
                            !.log = <<Entry(id, "compile error infoLog")>>]
        ELSE [none EXCEPT !.ret = "shader", !.compiled = {trimmed},
                          !.created = {id}, !.live = {id}]

\* The bookkeeping of one loadShader invocation: the call (with the text it
\* resolved, <<>> when the fetch failed, and how it ended: ret is "shader",
\* "null" or "throw") and what it did to the context.
ApplyLoad(r, id, type, sourceOrUrl, f) ==
    /\ loadCalls' = Append(loadCalls,
          [id |-> id, type |-> type, source |-> sourceOrUrl,
           resolved |-> IF f.kind = "none" THEN sourceOrUrl ELSE f.text,
           ret |-> r.ret])
    /\ compiled' = compiled \cup r.compiled
    /\ createdShaders' = createdShaders \cup r.created
    /\ liveShaders' = liveShaders \cup r.live

\* Mutant: the catch block does not append the error's message.
InitProgramCatch_NoMessage(log, msg) ==
    /\ console' = console \o log \o <<Entry("initProgram", msg)>>
    /\ overlayDisplay' = "block"
    /\ overlayText' = overlayText
    /\ ret' = "null"
    /\ pc' = "initReturned"

\* The catch block of initProgram: log, show the overlay, append the
\* error's message to it, return null.
InitProgramCatch(log, msg) ==
    /\ console' = console \o log \o <<Entry("initProgram", msg)>>
    /\ overlayDisplay' = "block"
    /\ overlayText' = Append(overlayText, msg)
    /\ ret' = "null"
    /\ pc' = "initReturned"

\* ------------------------------------------------- part_000: script top
\* Lines 2-15: the context check, the fixed canvas size and the viewport.
ContextCheck ==
    /\ host = "fixed"
    /\ pc = "script"
    /\ \E glOk \in BOOLEAN :
         IF glOk
           THEN /\ canvasSize' = <<FixedWidth, FixedHeight>>
                /\ viewport' = <<0, 0, FixedWidth, FixedHeight>>
                /\ pc' = "initProgram"
                /\ UNCHANGED <<console, overlayVars>>
           ELSE /\ console' = Append(console, Entry("context", "WebGL 2.0 not supported"))
                /\ overlayDisplay' = "block"
                /\ overlayText' = <<"WebGL 2.0 Required for Shaders">>
                /\ pc' = "failed"
                /\ UNCHANGED <<canvasSize, viewport>>
    /\ UNCHANGED <<host, ret, styleVars, windowSize, shaderVars, programVars, frameVars>>

\* ------------------------------------------------- part_000: initProgram
\* Where initProgram goes after each loadShader result r.
\* Mutant: the check of line 98 is missing.
AfterVertex_NoCheck(r) == IF r.ret = "throw" THEN "catch" ELSE "fragFile"

\* Line 98: if (!vs) throw ...
AfterVertex(r) == IF r.ret = "shader" THEN "fragFile" ELSE "catch"

\* Mutant: a failed file attempt is fatal, the fallback is never tried.
AfterFragmentFile_NoFallback(r) == IF r.ret = "shader" THEN "link" ELSE "catch"

\* Lines 102-105: if (!fs) { warn; fs = await loadShader(fallback) }
AfterFragmentFile(r) ==
    CASE r.ret = "shader" -> "link"
      [] r.ret = "null"   -> "fallback"
      [] r.ret = "throw"  -> "catch"

\* Line 106: if (!fs) throw ...
AfterFallback(r) == IF r.ret = "shader" THEN "link" ELSE "catch"

\* The message of the error the catch block receives.
Thrown(r, msg) == IF r.ret = "throw" THEN r.msg ELSE msg

\* Lines 97-98: the vertex shader, inline, no fallback.
LoadVertex ==
    /\ host = "fixed"
    /\ pc = "initProgram"
    /\ \E createOk \in BOOLEAN, compileOk \in BOOLEAN :
         LET r == loadShader("vs", VERTEX_SHADER, vertexShaderSource, NoFetch,
                             createOk, compileOk)
         IN  /\ ApplyLoad(r, "vs", VERTEX_SHADER, vertexShaderSource, NoFetch)
             /\ vs' = IF r.ret = "shader" THEN "vs" ELSE "null"
             /\ IF AfterVertex(r) = "catch"
                  THEN InitProgramCatch(r.log,
                          Thrown(r, "Vertex shader failed to load/compile"))
                  ELSE /\ pc' = AfterVertex(r)
                       /\ console' = console \o r.log
                       /\ UNCHANGED <<ret, overlayVars>>
    /\ UNCHANGED <<host, styleVars, surfaceVars, fs, programVars, frameVars>>

\* Lines 101-103: the fragment shader from 'shaders/fragment.glsl'.
LoadFragmentFile ==
    /\ host = "fixed"
    /\ pc = "fragFile"
    /\ \E f \in FetchOutcomes, createOk \in BOOLEAN, compileOk \in BOOLEAN :
         LET r == loadShader("fsFile", FRAGMENT_SHADER, fragmentUrl, f,
                             createOk, compileOk)
         IN  /\ ApplyLoad(r, "fsFile", FRAGMENT_SHADER, fragmentUrl, f)
             /\ fs' = IF r.ret = "shader" THEN "fsFile" ELSE "null"
             /\ CASE AfterFragmentFile(r) = "link" ->
                       /\ pc' = "link"
                       /\ console' = console \o r.log
                       /\ UNCHANGED <<ret, overlayVars>>
                  [] AfterFragmentFile(r) = "fallback" ->
                       /\ pc' = "fallback"
                       /\ console' = console \o r.log
                                       \o <<Entry("initProgram", "Fragment file failed")>>
                       /\ UNCHANGED <<ret, overlayVars>>
                  [] AfterFragmentFile(r) = "catch" ->
                       InitProgramCatch(r.log, Thrown(r, "no fragment shader"))
    /\ UNCHANGED <<host, styleVars, surfaceVars, vs, programVars, frameVars>>

\* Lines 104-106: the embedded fallback, after the file attempt returned null.
LoadFallback ==
    /\ host = "fixed"
    /\ pc = "fallback"
    /\ \E createOk \in BOOLEAN, compileOk \in BOOLEAN :
         LET r == loadShader("fsFallback", FRAGMENT_SHADER, fallbackFragmentSource,
                             NoFetch, createOk, compileOk)
         IN  /\ ApplyLoad(r, "fsFallback", FRAGMENT_SHADER, fallbackFragmentSource,
                          NoFetch)
             /\ fs' = IF r.ret = "shader" THEN "fsFallback" ELSE "null"
             /\ IF AfterFallback(r) = "catch"
                  THEN InitProgramCatch(r.log,
                          Thrown(r, "Fragment shader failed (even fallback)"))
                  ELSE /\ pc' = AfterFallback(r)
                       /\ console' = console \o r.log
                       /\ UNCHANGED <<ret, overlayVars>>
    /\ UNCHANGED <<host, styleVars, surfaceVars, vs, programVars, frameVars>>

\* Mutant: the link status is not checked, the program is always returned.
LinkReturn_Unchecked(linkOk) == "prog"

\* Lines 113-127: what initProgram returns after linking.
LinkReturn(linkOk) == IF linkOk THEN "prog" ELSE "null"

\* Lines 113-124: the shader objects initProgram deletes after linking: both
\* on success, none on the link-failure path (it returns before the cleanup).
LinkCleanup(linkOk) == IF linkOk THEN {vs, fs} ELSE {}

\* Lines 108-127: create, attach, link; on a link failure delete the program
\* and return null; on success detach and delete both shaders.
LinkProgram ==
    /\ host = "fixed"
    /\ pc = "link"
    /\ linkCount' = linkCount + 1
    /\ \E linkOk \in BOOLEAN :
         /\ linkFailed' = ~linkOk
         /\ programObj' = IF linkOk THEN "live" ELSE "deleted"
         /\ ret' = LinkReturn(linkOk)
         /\ liveShaders' = liveShaders \ LinkCleanup(linkOk)
         /\ console' = IF linkOk THEN console
                        ELSE Append(console, Entry("link", "link error infoLog"))
    /\ pc' = "initReturned"
    /\ UNCHANGED <<host, styleVars, surfaceVars, overlayVars, loadCalls, compiled,
                   createdShaders, vs, fs, program, locs, frameVars>>

\* ------------------------------------------------- part_000: setUniforms
\* parseFloat(root.getPropertyValue('--haziness')) || 0.05
DefaultHaziness == 5

\* '1,0.9,0.7'
DefaultSunlightStr == <<"1", ",", "0", ".", "9", ",", "0", ".", "7">>

haziness(prop) ==
    LET OrDefault(h) == IF TruthyNum(h) THEN h ELSE DefaultHaziness
    IN  Apply(OrDefault, ParseFloat(prop))

\* str.trim().split(',').map(Number), as handed to new Float32Array
NumberList(str) ==
    LET Numbers(parts) == [i \in 1..Len(parts) |-> Apply(ToNumber, parts[i])]
    IN  Apply(Numbers, Split(Trim(str)))

sunlightRGB(prop) ==
    NumberList(IF TruthyStr(prop) THEN prop ELSE DefaultSunlightStr)

\* The value each gl.uniform* call of setUniforms is given.
FixedValues ==
    [n \in UniformNames |->
        CASE n = "u_resolution"    -> canvasSize
          [] n = "u_time"          -> <<now>>
          [] n = "u_haziness"      -> <<haziness(hazinessProp)>>
          [] n = "u_sunlightRGB"   -> sunlightRGB(sunlightProp)
          [] n = "u_sunlightAngle" -> <<0, 0>>]

\* Line 175: if (!program || !resolutionLoc) return;
EarlyReturn == program = "null" \/ "u_resolution" \notin locs

\* Lines 174-186: the uniforms setUniforms writes in this call.
setUniformsWrites == IF EarlyReturn THEN {} ELSE locs

\* ------------------------------------------------- main.js: setUniforms
\* Lines 118-129: no guard and no default; gl.uniform* with a null location
\* is ignored by the context.  size is canvas.width, canvas.height as line
\* 119 reads them when the call is made.
MainValues(size) ==
    [n \in UniformNames |->
        CASE n = "u_resolution"    -> size
          [] n = "u_time"          -> <<now>>
          [] n = "u_haziness"      -> <<ParseFloat(hazinessProp)>>
          [] n = "u_sunlightRGB"   -> NumberList(sunlightProp)
          [] n = "u_sunlightAngle" -> <<0, 0>>]

\* ------------------------------------------------- render (both hosts)
\* Mutant: render does not request the next animation frame.
FrameCalls_NoReschedule == <<"setUniforms", "drawArrays">>

\* The calls one render() makes, in order.
FrameCalls == <<"setUniforms", "drawArrays", "requestAnimationFrame">>

Count(calls, c) == Cardinality({i \in DOMAIN calls : calls[i] = c})

\* render(): part_000 lines 189-194 (with the program guard), main.js lines
\* 132-136.  prog and ls are the program and the locations it runs with,
\* queued the callbacks still pending when it runs, size the canvas size at
\* that moment.
render(prog, ls, queued, size) ==
    /\ renderCalls' = renderCalls + 1
    /\ now' = now + 1
    /\ LET calls  == IF host = "fixed" /\ prog = "null" THEN <<>> ELSE FrameCalls
           values == IF host = "fixed" THEN FixedValues ELSE MainValues(size)
           writes == IF Count(calls, "setUniforms") = 0 THEN {}
                     ELSE IF host = "fixed" THEN setUniformsWrites ELSE ls
       IN  /\ lastFrame' = calls
           /\ uniforms' = [n \in UniformNames |->
                             IF n \in writes THEN values[n] ELSE uniforms[n]]
           /\ lastWrites' = writes
           /\ drawCalls' = drawCalls + Count(calls, "drawArrays")
           /\ pending' = queued + Count(calls, "requestAnimationFrame")

\* ------------------------------------------------- part_000: setup, init
\* The uniform locations gl.getUniformLocation resolves: those of the
\* fallback source when it was linked, any set for the fetched file.
ResolvedLocations ==
    IF fs = "fsFallback" THEN {FallbackUniforms} ELSE SUBSET UniformNames

\* Lines 148-167: the continuation of setup after initProgram returned.
setup ==
    /\ host = "fixed"
    /\ pc = "initReturned"
    /\ program' = ret
    /\ IF ret = "null"
         THEN /\ console' = Append(console, Entry("setup", "Failed to initialize program"))
              /\ ret' = "false"
              /\ UNCHANGED locs
         ELSE /\ locs' \in ResolvedLocations
              /\ ret' = "true"
              /\ UNCHANGED console
    /\ pc' = "setupReturned"
    /\ UNCHANGED <<host, styleVars, surfaceVars, overlayVars, shaderVars, programObj,
                   linkCount, linkFailed, frameVars>>

\* Mutant: the overlay is left as it is on success.
OverlayAfterSetup_NotHidden(success) == IF success THEN overlayDisplay ELSE "block"

\* Lines 200-207: errorOverlay.style.display after setup returned.
OverlayAfterSetup(success) == IF success THEN "none" ELSE "block"

\* Lines 197-213: the continuation of the init IIFE after setup returned.
init ==
    /\ host = "fixed"
    /\ pc = "setupReturned"
    /\ overlayDisplay' = OverlayAfterSetup(ret = "true")
    /\ IF ret = "true"
         THEN /\ render(program, locs, pending, canvasSize)
              /\ pc' = "rendering"
              /\ UNCHANGED console
         ELSE /\ console' = Append(console, Entry("init", "Setup failed"))
              /\ pc' = "failed"
              /\ UNCHANGED frameVars
    /\ UNCHANGED <<host, ret, styleVars, surfaceVars, overlayText, shaderVars, programVars>>

\* ------------------------------------------------- the animation callback
\* requestAnimationFrame(render) fires: one pending callback runs.
Frame ==
    /\ pc = "rendering"
    /\ pending > 0
    /\ renderCalls < MaxFrames
    /\ render(program, locs, pending - 1, canvasSize)
    /\ UNCHANGED <<host, pc, ret, styleVars, surfaceVars, overlayVars, console,
                   shaderVars, programVars>>

\* ------------------------------------------------- main.js
\* Mutant: resizeCanvas sets the canvas size and leaves the viewport alone.
resizeCanvas_NoViewport(size) == <<size, viewport>>

\* Lines 10-14: resizeCanvas, as the value of <<canvasSize, viewport>>.
resizeCanvas(size) == <<size, <<0, 0, size[1], size[2]>>>>

\* Lines 75-85: createShader(gl, type, source): no trim, no fallback.
createShader(id, source, compileOk) ==
    [ret      |-> IF compileOk THEN id ELSE "null",
     compiled |-> {source},
     created  |-> {id},
     live     |-> IF compileOk THEN {id} ELSE {},
     log      |-> IF compileOk THEN <<>> ELSE <<Entry(id, "compile error infoLog")>>]

\* The inline fragment source of main.js, abbreviated like the others.
fragmentShaderSource ==
    <<"#", "v", "e", "r", "s", "i", "o", "n", " ", "3", "0", "0", " ", "e", "s",
      "\n", "m", "}">>

\* The whole script, top to bottom (it is synchronous): context check,
\* resize listener and first resizeCanvas, both shaders, the program, the
\* locations, the first render().  An uncaught exception ends the script.
MainScript ==
    /\ host = "window"
    /\ pc = "script"
    /\ \E glOk \in BOOLEAN, vsOk \in BOOLEAN, fsOk \in BOOLEAN, linkOk \in BOOLEAN :
         LET v == createShader("vs", vertexShaderSource, vsOk)
             g == createShader("fs", fragmentShaderSource, fsOk)
             rs == resizeCanvas(windowSize)
         IN  IF ~glOk
               THEN /\ console' = Append(console, Entry("context", "WebGL not supported"))
                    /\ pc' = "noContext"
                    /\ UNCHANGED <<canvasSize, viewport, shaderVars, programVars, frameVars>>
               ELSE /\ canvasSize' = rs[1]
                    /\ viewport' = rs[2]
                    /\ loadCalls' = loadCalls
                          \o << [id |-> "vs", type |-> VERTEX_SHADER,
                                 source |-> vertexShaderSource,
                                 resolved |-> vertexShaderSource,
                                 ret |-> IF vsOk THEN "shader" ELSE "null"],
                                [id |-> "fs", type |-> FRAGMENT_SHADER,
                                 source |-> fragmentShaderSource,
                                 resolved |-> fragmentShaderSource,
                                 ret |-> IF fsOk THEN "shader" ELSE "null"] >>
                    /\ compiled' = compiled \cup v.compiled \cup g.compiled
                    /\ createdShaders' = createdShaders \cup v.created \cup g.created
                    /\ liveShaders' = liveShaders \cup v.live \cup g.live
                    /\ vs' = v.ret
                    /\ fs' = g.ret
                    /\ programObj' = "live"
                    /\ IF ~(vsOk /\ fsOk)
                         THEN \* gl.attachShader(program, null) throws
                              /\ console' = console \o v.log \o g.log
                              /\ pc' = "aborted"
                              /\ UNCHANGED <<linkCount, linkFailed, program, locs, frameVars>>
                         ELSE /\ linkCount' = linkCount + 1
                              /\ program' = "prog"
                              /\ IF ~linkOk
                                   THEN /\ linkFailed' = TRUE
                                        /\ console' = Append(console,
                                              Entry("link", "link error infoLog"))
                                        /\ pc' = "aborted"
                                        /\ UNCHANGED <<locs, frameVars>>
                                   ELSE /\ locs' = MainUniforms
                                        /\ render("prog", MainUniforms, pending, rs[1])
                                        /\ pc' = "rendering"
                                        /\ UNCHANGED <<console, linkFailed>>
    /\ UNCHANGED <<host, ret, styleVars, windowSize, overlayVars>>

\* The window is resized and the resize listener runs resizeCanvas.
Resize ==
    /\ host = "window"
    /\ pc \in {"rendering", "aborted"}
    /\ \E size \in WindowSizes :
         /\ windowSize' = size
         /\ canvasSize' = resizeCanvas(size)[1]
         /\ viewport' = resizeCanvas(size)[2]
    /\ UNCHANGED <<host, pc, ret, styleVars, overlayVars, console, shaderVars,
                   programVars, frameVars>>

\* ------------------------------------------------------------------ spec
Next ==
    \/ ContextCheck
    \/ LoadVertex
    \/ LoadFragmentFile
    \/ LoadFallback
    \/ LinkProgram
    \/ setup
    \/ init
    \/ Frame
    \/ MainScript
    \/ Resize

Spec == Init /\ [][Next]_vars

\* The event loop runs every continuation and every requested callback.
FairSpec == Spec /\ WF_vars(Next)

\* ================================================================ claims
Fixed == host = "fixed"

Failed == pc = "failed"

Rendering == pc = "rendering"

\* The bootstrap has settled: the render loop runs or the bootstrap failed.
Settled == pc \in {"rendering", "failed"}

Logged(who) == \E i \in DOMAIN console : console[i].who = who

CallsWith(source) == Cardinality({i \in DOMAIN loadCalls : loadCalls[i].source = source})

\* The file attempt failed by a non-OK status, a transport error, an empty
\* text or a compile error (each is logged under the attempt's object).
FileAttemptFailed == Fixed /\ vs = "vs" /\ Logged("fsFile")

\* The fallback compiled and the program linked.
FallbackLinked == Fixed /\ fs = "fsFallback" /\ programObj = "live"

\* C1: when the vertex shader compiled and the attempt on
\* 'shaders/fragment.glsl' fails (HTTP status, transport, empty text, compile
\* error), loadShader is invoked exactly once more, with the embedded
\* fallback source; and when that fallback compiles and the program links,
\* the bootstrap goes on to the render loop: at least one draw call is
\* issued and the overlay is hidden, and it never ends in Failed.
C1_FallbackReachesReady ==
    /\ [](FileAttemptFailed =>
            /\ CallsWith(fallbackFragmentSource) = (IF pc = "fallback" THEN 0 ELSE 1)
            /\ Len(loadCalls) = (IF pc = "fallback" THEN 2 ELSE 3))
    /\ [](FileAttemptFailed /\ FallbackLinked => ~Failed)
    /\ [](FileAttemptFailed /\ FallbackLinked /\ Settled =>
            Rendering /\ drawCalls >= 1 /\ overlayDisplay = "none")
    /\ (FileAttemptFailed /\ FallbackLinked
            ~> (Rendering /\ drawCalls >= 1 /\ overlayDisplay = "none"))

\* C1 witness: the file answered 404, the fallback was linked, a frame drawn.
C1_Witness ==
    /\ FileAttemptFailed /\ FallbackLinked /\ Rendering /\ drawCalls >= 1
    /\ \E i \in DOMAIN console : console[i] = Entry("fsFile", "HTTP error")

\* The vertex shader failed to load or compile.
VertexFailed == Fixed /\ loadCalls # <<>> /\ vs = "null"

\* C2: when the vertex shader fails, no fragment load (file or fallback) is
\* made, no program object is created, no frame is ever rendered or drawn,
\* the overlay is shown, and the bootstrap ends in Failed.
C2_VertexFailureIsFatal ==
    /\ [](VertexFailed =>
            /\ Len(loadCalls) = 1
            /\ loadCalls[1].type = VERTEX_SHADER
            /\ programObj = "none" /\ linkCount = 0 /\ program = "null"
            /\ renderCalls = 0 /\ drawCalls = 0 /\ pending = 0
            /\ overlayDisplay = "block"
            /\ pc \in {"initReturned", "setupReturned", "failed"})
    /\ (VertexFailed ~> Failed)

\* C2 witness: the vertex shader did not compile and the bootstrap failed.
C2_Witness ==
    /\ VertexFailed /\ Failed
    /\ \E i \in DOMAIN console : console[i] = Entry("vs", "compile error infoLog")

\* C3: once the bootstrap has settled, the overlay is visible exactly when
\* the bootstrap is Failed and hidden exactly when the render loop was
\* started; Failed is terminal and no draw call follows a shown overlay.
C3_OverlayIffFailed ==
    /\ [](Fixed /\ Settled =>
            /\ (overlayDisplay = "block" <=> Failed)
            /\ (overlayDisplay = "none" <=> renderCalls >= 1)
            /\ (Failed => drawCalls = 0 /\ renderCalls = 0 /\ pending = 0))
    /\ [](Fixed /\ overlayDisplay = "block" => drawCalls = 0)
    /\ [][Fixed /\ Failed => Failed' /\ drawCalls' = 0 /\ overlayDisplay' = "block"]_vars

\* C3 witness: both fragment attempts failed, the overlay is shown.
C3_Witness ==
    /\ Fixed /\ Failed /\ overlayDisplay = "block"
    /\ vs = "vs" /\ Logged("fsFile") /\ Logged("fsFallback")

\* C4: when linking fails, the program object is deleted and null is
\* returned; afterwards no shader is loaded, nothing is linked again and
\* nothing is drawn, and the bootstrap ends in Failed.
C4_LinkFailureIsFatal ==
    /\ [](Fixed /\ linkFailed =>
            /\ programObj = "deleted" /\ program = "null" /\ linkCount = 1
            /\ ret \in {"null", "false"}
            /\ renderCalls = 0 /\ drawCalls = 0 /\ pending = 0
            /\ pc \in {"initReturned", "setupReturned", "failed"})
    /\ [][Fixed /\ linkFailed =>
            loadCalls' = loadCalls /\ linkCount' = linkCount /\ programObj' = programObj]_vars
    /\ (Fixed /\ linkFailed ~> Failed /\ overlayDisplay = "block")

\* C4 witness: the link failed after the fallback compiled; Failed.
C4_Witness ==
    /\ Fixed /\ linkFailed /\ Failed /\ fs = "fsFallback" /\ programObj = "deleted"

\* C5: in every frame setUniforms writes a uniform if and only if that
\* uniform's own location is present, for every combination of locations.
C5_WritesIffLocationPresent ==
    Fixed /\ Rendering => lastWrites = locs

\* The documented default of sunlightColor, (1.0, 0.9, 0.7).
DefaultSunlightColor == <<Scale, 90, 70>>

\* The style value is absent or is no comma-separated triple of numbers.
SunlightUnparsable(prop) ==
    \/ prop = <<>>
    \/ LET l == NumberList(prop)
       IN  Len(l) # 3 \/ \E i \in DOMAIN l : l[i] = NaN

HazinessUnparsable(prop) == ParseFloat(prop) = NaN

\* C6: whenever --haziness or --sunlight-rgb is absent or unparsable, the
\* value pushed in the frame is the documented default (0.05; 1.0, 0.9, 0.7).
C6_DefaultsWhenUnparsable ==
    Fixed /\ Rendering =>
        /\ ("u_haziness" \in lastWrites /\ HazinessUnparsable(hazinessProp)
              => uniforms["u_haziness"] = <<DefaultHaziness>>)
        /\ ("u_sunlightRGB" \in lastWrites /\ SunlightUnparsable(sunlightProp)
              => uniforms["u_sunlightRGB"] = DefaultSunlightColor)

\* C7: when initProgram has returned, on every exit path, every shader
\* object created with gl.createShader has been deleted.
C7_NoShaderOutlivesInitProgram ==
    Fixed /\ pc \in {"initReturned", "setupReturned", "rendering", "failed"}
        => liveShaders = {}

\* The backend diagnostics: fetch / HTTP errors, compile logs, the link log.
DiagnosticTexts ==
    {"HTTP error", "transport error", "Empty shader source after trim",
     "compile error infoLog", "link error infoLog"}

\* The objects whose failure made the bootstrap fail.
FailureSources ==
    IF VertexFailed THEN {"vs"}
    ELSE IF linkFailed THEN {"link"}
    ELSE IF vs = "vs" /\ fs = "null" THEN {"fsFile", "fsFallback"}
    ELSE {}

Shown(text) == \E i \in DOMAIN overlayText : overlayText[i] = text

CaughtMessages ==
    {"Vertex shader failed to load/compile",
     "Fragment shader failed (even fallback)",
     "Failed to create shader of type vertex",
     "Failed to create shader of type fragment"}

C9_CompilerNeverGetsEmptyText ==
    Fixed =>
        /\ \A t \in compiled : t # <<>> /\ t[1] \notin WS /\ t[Len(t)] \notin WS
        /\ \A i \in DOMAIN loadCalls :
              Trim(loadCalls[i].resolved) = <<>> =>
                  /\ loadCalls[i].id \notin createdShaders
                  /\ vs # loadCalls[i].id /\ fs # loadCalls[i].id

\* C9 witness: the fetched file held white space only; no shader object was
\* created for it and the fallback is next.
C9_Witness ==
    /\ Fixed /\ pc = "fallback"
    /\ loadCalls[2].resolved = <<" ", "\n">>
    /\ "fsFile" \notin createdShaders

\* C10: once the render loop has started, every invocation of render calls
\* setUniforms, then gl.drawArrays once, then requests exactly one next
\* callback: one callback is pending at any time, the draw calls equal the
\* invocations of render, and the loop never stops scheduling frames.
C10_OneDrawOneCallbackPerFrame ==
    /\ [](pending <= 1 /\ drawCalls = renderCalls)
    /\ [](Rendering =>
            /\ pending = 1 /\ renderCalls >= 1
            /\ lastFrame = <<"setUniforms", "drawArrays", "requestAnimationFrame">>
            /\ (renderCalls < MaxFrames => ENABLED Frame))
    /\ [][renderCalls' # renderCalls =>
            /\ renderCalls' = renderCalls + 1
            /\ drawCalls' = drawCalls + 1
            /\ pending' = 1
            /\ Rendering']_vars
    /\ [][Rendering => Rendering']_vars

\* C10 witness: the window-filling host has run an animation callback after
\* the first render.
C10_Witness ==
    /\ host = "window" /\ Rendering /\ renderCalls >= 2 /\ drawCalls >= 2 /\ pending = 1

\* C11: loadShader reports every failure (fetch rejection, non-OK status,
\* empty source, failure to allocate the shader object, compile failure) by
\* returning null: no invocation of loadShader ends with an exception that
\* reaches its caller.
C11_loadShaderNeverThrows ==
    Fixed => \A i \in DOMAIN loadCalls : loadCalls[i].ret \in {"shader", "null"}

\* The resize listener of main.js is registered: the script got past line 15.
Listening == host = "window" /\ pc \in {"rendering", "aborted"}

\* C12: in the window-filling host, however resize events and animation
\* frames interleave, the canvas size is the window inner size read by the
\* latest resizeCanvas, the viewport is (0, 0, canvas.width, canvas.height),
\* a frame changes neither, and the u_resolution pushed by each frame is the
\* canvas size at the moment of that frame.
C12_CanvasTracksWindow ==
    /\ [](Listening =>
            /\ canvasSize = windowSize
            /\ viewport = <<0, 0, canvasSize[1], canvasSize[2]>>)
    /\ [][host = "window" /\ renderCalls' # renderCalls =>
            /\ "u_resolution" \in lastWrites'
            /\ uniforms'["u_resolution"] = canvasSize'
            /\ (pc = "rendering" => canvasSize' = canvasSize /\ viewport' = viewport)]_vars
    /\ [][host = "window" /\ windowSize' # windowSize =>
            /\ canvasSize' = windowSize'
            /\ renderCalls' = renderCalls
            /\ uniforms' = uniforms]_vars

\* C12 witness: a resize event changed the window size between two animation
\* frames: canvas and viewport already have the new size, u_resolution still
\* holds the size the last frame pushed, and the next frame is due.
C12_Witness ==
    /\ host = "window" /\ Rendering /\ renderCalls = 2 /\ pending = 1
    /\ canvasSize = windowSize
    /\ viewport = <<0, 0, canvasSize[1], canvasSize[2]>>
    /\ uniforms["u_resolution"] # <<>>
    /\ uniforms["u_resolution"] # canvasSize
====
